---- MODULE Spec2Model ----
(***************************************************************************)
(* A model of main.py: the frame loop apply_ml_processing, the demo        *)
(* responder demo_processing, the dispatcher process_video and the Gradio  *)
(* click wiring around them.                                               *)
(*                                                                         *)
(* process_video runs on a worker k with its own program counter and       *)
(* locals (inv[k]); the filesystem (fs, demoListing) and the set of open   *)
(* OpenCV handles are shared by the workers.  A step of a worker is one    *)
(* statement group of the source, named by the pc label.                   *)
(*                                                                         *)
(* Three specifications run the same steps:                                *)
(*   Spec      one worker, process_video called again and again;           *)
(*   SpecConc  concurrent test-mode calls, one per worker;                 *)
(*   SpecUI    the Gradio session: uploads, button clicks and the two      *)
(*             listener chains each click starts.                          *)
(*                                                                         *)
(* Library behaviour the source relies on:                                 *)
(*   - cv2.VideoCapture(p) never raises; isOpened() is false for a file    *)
(*     that is absent or is not a video;                                   *)
(*   - cv2.VideoWriter(p, ...) never raises; when the destination cannot   *)
(*     be created the writer is simply not opened and write() is a no-op;  *)
(*   - shutil.copy raises when the source does not exist;                  *)
(*   - the cv2 image calls, out.write and the progress callback are calls  *)
(*     that may raise.                                                     *)
(***************************************************************************)
EXTENDS Integers, Sequences, FiniteSets, TLC

\* ---------------------------------------------------------------- bounds
MaxFrames == 2
MaxCalls == 2

\* ------------------------------------------------------ program constants
UPLOAD_DIR == "uploaded_videos"
PROCESSED_DIR == "processed_videos"
DEMO_DIR == "demo_videos"
num_steps == 10

Workers == 1..MaxCalls
Names == {"a.mp4", "b.mp4"}
Modes == {"demo", "test"}

\* A path is a directory and a file name; a file name is the sequence of
\* prefixes put in front of the upload's base name.  NoPath stands for None.
NoPath == [dir |-> "None", file |-> <<>>]
TmpPath(name) == [dir |-> "tmp", file |-> <<name>>]

basename(path) == path.file
join(dir, file) == [dir |-> dir, file |-> file]

\* File contents.  A source video has n readable frames and a header that
\* declares d frames; a written container holds the frames written to it
\* since it was last created, and remembers which call created it.
Absent == [kind |-> "absent", n |-> 0, d |-> 0, creator |-> 0, frames |-> <<>>]
Corrupt == [kind |-> "corrupt", n |-> 0, d |-> 0, creator |-> 0, frames |-> <<>>]
Video(n, d) == [kind |-> "video", n |-> n, d |-> d, creator |-> 0, frames |-> <<>>]
Container(k) == [kind |-> "out", n |-> 0, d |-> 0, creator |-> k, frames |-> <<>>]
Stock == Container(0)
SourceKinds ==
    {Corrupt} \cup {Video(n, d) : n \in 0..MaxFrames, d \in 0..MaxFrames}

\* What the caller hands to process_video: None, or the path of a temporary
\* file together with what that file holds (Absent: there is no such file).
Uploads(names, kinds) ==
    {[video |-> TmpPath(name), upload |-> c] : name \in names, c \in kinds}
NoUpload == [video |-> NoPath, upload |-> Absent]
AllInputs ==
    {NoUpload} \cup Uploads({"a.mp4"}, SourceKinds \cup {Absent})
               \cup Uploads({"b.mp4"}, {Corrupt, Video(1, 1)})
ConcInputs == Uploads(Names, {Video(1, 1)})
UIInputs == Uploads({"a.mp4"}, {Video(1, 1)})

\* Progress fractions are kept exact: a / b is <<a, b>>.
Frac(a, b) == <<a, b>>

VARIABLES
    inv,          \* inv[k]: pc and locals of process_video on worker k
    calls,        \* how many calls of process_video have started
    fs,           \* path -> contents, for every file of the three areas
    demoListing,  \* os.listdir(DEMO_DIR), in the order it lists
    handles,      \* the open VideoCapture / VideoWriter handles
    generated,    \* history: fallback assets created in the demo area
    firstDemo,    \* history: the first return of demo_processing
    shared,       \* history: paths on which two writers were open at once
    mode,         \* the gr.State holding the session's mode
    video_input,  \* the gr.Video input component
    output_video, \* the gr.Video output component
    status,       \* the status textbox
    clicks        \* clicks[c]: the button of click c and its two listeners

vars == <<inv, calls, fs, demoListing, handles, generated, firstDemo, shared,
          mode, video_input, output_video, status, clicks>>

UI == <<mode, video_input, output_video, status, clicks>>
Hist == <<generated, firstDemo, shared>>

Exists(p) == p \in DOMAIN fs
Put(f, p, c) == [q \in (DOMAIN f) \cup {p} |-> IF q = p THEN c ELSE f[q]]

NoOut == [path |-> NoPath, opened |-> FALSE]
NoOutcome == [kind |-> "none", value |-> NoPath, error |-> "none"]
IdleInv ==
    [pc |-> "idle", call |-> 0, video |-> NoPath, upload |-> Absent, mode |-> "test",
     saved_path |-> NoPath, cap |-> NoPath, out |-> NoOut,
     output_path |-> NoPath, total_frames |-> 0, i |-> 0, pos |-> 0,
     frame |-> 0, processed_path |-> NoPath, listed |-> <<>>,
     demo_files |-> <<>>, step |-> 0, progress |-> <<>>,
     outcome |-> NoOutcome]

NoClick == [btn |-> "none", setter |-> "none", chain |-> "none", ran_with |-> "none"]
NoDemo == [video |-> NoPath, result |-> NoPath]

InitDemoListings ==
    {<<>>, << <<"stock1.mp4">> >>, << <<"stock2.mp4">>, <<"stock1.mp4">> >>}

Init ==
    /\ inv = [k \in Workers |-> IdleInv]
    /\ calls = 0
    /\ demoListing \in InitDemoListings
    /\ fs = [p \in {join(DEMO_DIR, demoListing[j]) : j \in 1..Len(demoListing)} |-> Stock]
    /\ handles = {}
    /\ generated = 0
    /\ firstDemo = NoDemo
    /\ shared = {}
    /\ mode = "test"
    /\ video_input = NoUpload
    /\ output_video = NoPath
    /\ status = "Upload a video and select a processing mode"
    /\ clicks = [c \in Workers |-> NoClick]

\* ------------------------------------------------------------- outcomes
Returned(p) == [kind |-> "return", value |-> p, error |-> "none"]
Raised(err) == [kind |-> "raise", value |-> NoPath, error |-> err]

\* process_video's except clause: the error is printed and None is returned.
TryExcept(r, err) ==
    [r EXCEPT !.pc = "done",
              !.outcome = [kind |-> "return", value |-> NoPath, error |-> err]]

\* An exception raised outside the try block leaves process_video.
Propagate(r, err) == [r EXCEPT !.pc = "done", !.outcome = Raised(err)]

\* progress(f, desc=...): the callback is handed the fraction f.
Progress(r, f) == [r EXCEPT !.progress = Append(@, f)]

Cap(k, p) == [owner |-> k, kind |-> "cap", path |-> p]
Out(k, p) == [owner |-> k, kind |-> "out", path |-> p]

\* cap.isOpened() after cv2.VideoCapture(p)
isOpened(p) == Exists(p) /\ fs[p].kind = "video"

\* ret of cap.read(): a further frame of the opened file is readable
ret(r) == isOpened(r.cap) /\ r.pos < fs[r.cap].n

\* out.write(frame) in call k: nothing happens on an unopened writer
Write(k, out, frame) ==
    IF out.opened /\ Exists(out.path)
    THEN [fs EXCEPT ![out.path].frames =
              Append(@, [by |-> k, idx |-> frame.idx, fx |-> frame.fx])]
    ELSE fs

\* cv2.VideoWriter(p, ...): the destination is created empty by call k
\* when it can be created, and the writer is then open.
Create(k, p, ok) == IF ok THEN Put(fs, p, Container(k)) ELSE fs
Acquire(k, p, ok) == IF ok THEN handles \cup {Out(k, p)} ELSE handles
Overlap(k, p, ok) ==
    IF ok /\ (\E h \in handles : h.kind = "out" /\ h.path = p /\ h.owner # k)
    THEN shared \cup {p} ELSE shared

\* cap.release(); out.release(), in call k
Release(k) == {h \in handles : h.owner # k}

\* ------------------------------------------------------- process_video
\* if video is None: return None; otherwise the body starts.
Enter(k, input, md) ==
    /\ inv[k].pc \in {"idle", "done"}
    /\ calls < MaxCalls
    /\ calls' = calls + 1
    /\ inv' = [inv EXCEPT ![k] =
         IF input.video = NoPath
         THEN [IdleInv EXCEPT !.pc = "done", !.call = calls + 1, !.mode = md,
                              !.outcome = Returned(NoPath)]
         ELSE [IdleInv EXCEPT !.pc = "pv_copy", !.call = calls + 1,
                              !.video = input.video,
                              !.upload = input.upload, !.mode = md]]

SavedPath(video) == join(UPLOAD_DIR, basename(video))

\* video_name, saved_path, shutil.copy(video, saved_path)
PvCopy(k) ==
    LET r == inv[k]
        saved == SavedPath(r.video)
    IN /\ r.pc = "pv_copy"
       /\ IF r.upload # Absent
          THEN /\ fs' = Put(fs, saved, r.upload)
               /\ inv' = [inv EXCEPT ![k] =
                    [r EXCEPT !.pc = "pv_progress", !.saved_path = saved]]
          ELSE /\ fs' = fs
               /\ inv' = [inv EXCEPT ![k] = Propagate(r, "FileNotFoundError")]
       /\ UNCHANGED <<calls, demoListing, handles, Hist, UI>>

Branch(md) == IF md = "demo" THEN "dp_list" ELSE "ml_open"

\* progress(0.1, ...), then the try block is entered and the mode branches
PvProgress(k) ==
    LET r == Progress(inv[k], Frac(1, 10))
    IN /\ inv[k].pc = "pv_progress"
       /\ \E raises \in BOOLEAN :
            inv' = [inv EXCEPT ![k] =
                IF raises THEN Propagate(r, "callback")
                ELSE [r EXCEPT !.pc = Branch(r.mode)]]
       /\ UNCHANGED <<calls, fs, demoListing, handles, Hist, UI>>

\* progress(1.0, ...); return processed_path
PvComplete(k) ==
    LET r == Progress(inv[k], Frac(1, 1))
    IN /\ inv[k].pc = "pv_complete"
       /\ \E raises \in BOOLEAN :
            inv' = [inv EXCEPT ![k] =
                IF raises THEN TryExcept(r, "callback")
                ELSE [r EXCEPT !.pc = "done",
                               !.outcome = Returned(r.processed_path)]]
       /\ UNCHANGED <<calls, fs, demoListing, handles, Hist, UI>>

\* -------------------------------------------------- apply_ml_processing
OutputPath(video_path) ==
    join(PROCESSED_DIR, <<"processed_">> \o basename(video_path))

\* the blend of a frame with its edge map
FrameFilter(frame) == [idx |-> frame, fx |-> "edges"]

\* cap = cv2.VideoCapture(video_path) ... total_frames
MlOpen(k) ==
    LET r == inv[k]
    IN /\ r.pc = "ml_open"
       /\ IF isOpened(r.saved_path)
          THEN /\ handles' = handles \cup {Cap(r.call, r.saved_path)}
               /\ inv' = [inv EXCEPT ![k] =
                    [r EXCEPT !.pc = "ml_writer", !.cap = r.saved_path, !.pos = 0,
                              !.total_frames = fs[r.saved_path].d]]
          ELSE /\ handles' = handles
               /\ inv' = [inv EXCEPT ![k] = TryExcept(r, "ValueError")]
       /\ UNCHANGED <<calls, fs, demoListing, Hist, UI>>

\* A variant of the code that creates the destination exclusively.
WriterMayOpenExclusive(k, p) ==
    ~\E h \in handles : h.kind = "out" /\ h.path = p /\ h.owner # inv[k].call

\* Nothing in the source guards the creation of the destination.
WriterMayOpen(k, p) == TRUE

\* output_path; out = cv2.VideoWriter(output_path, ...)
MlWriter(k) ==
    LET r == inv[k]
        p == OutputPath(r.saved_path)
    IN /\ r.pc = "ml_writer"
       /\ WriterMayOpen(k, p)
       /\ \E ok \in BOOLEAN :
            /\ fs' = Create(r.call, p, ok)
            /\ handles' = Acquire(r.call, p, ok)
            /\ shared' = Overlap(r.call, p, ok)
            /\ inv' = [inv EXCEPT ![k] =
                 [r EXCEPT !.pc = "ml_start", !.output_path = p,
                           !.out = [path |-> p, opened |-> ok]]]
       /\ UNCHANGED <<calls, demoListing, generated, firstDemo, UI>>

\* progress(0, desc="Starting video processing...")
MlStart(k) ==
    LET r == Progress(inv[k], Frac(0, 1))
    IN /\ inv[k].pc = "ml_start"
       /\ \E raises \in BOOLEAN :
            inv' = [inv EXCEPT ![k] =
                IF raises THEN TryExcept(r, "callback")
                ELSE [r EXCEPT !.pc = "ml_loop", !.i = 0]]
       /\ UNCHANGED <<calls, fs, demoListing, handles, Hist, UI>>

\* for i in range(total_frames)
LoopContinues(r) == r.i < r.total_frames

\* A variant of the code that treats a failed read as an error.
OnReadFailRaise(r) == TryExcept(r, "read")

\* if not ret: break
OnReadFail(r) == [r EXCEPT !.pc = "ml_release"]

\* the loop header, cap.read() and the break on a failed read
MlLoop(k) ==
    LET r == inv[k]
    IN /\ r.pc = "ml_loop"
       /\ inv' = [inv EXCEPT ![k] =
            IF ~LoopContinues(r) THEN [r EXCEPT !.pc = "ml_release"]
            ELSE IF ret(r)
            THEN [r EXCEPT !.pc = "ml_frame", !.frame = r.pos + 1, !.pos = r.pos + 1]
            ELSE OnReadFail(r)]
       /\ UNCHANGED <<calls, fs, demoListing, handles, Hist, UI>>

\* the filter and out.write(processed_frame)
MlFrame(k) ==
    LET r == inv[k]
    IN /\ r.pc = "ml_frame"
       /\ \E fault \in {"none", "filter", "write"} :
            IF fault = "none"
            THEN /\ fs' = Write(r.call, r.out, FrameFilter(r.frame))
                 /\ inv' = [inv EXCEPT ![k] = [r EXCEPT !.pc = "ml_progress"]]
            ELSE /\ fs' = fs
                 /\ inv' = [inv EXCEPT ![k] = TryExcept(r, fault)]
       /\ UNCHANGED <<calls, demoListing, handles, Hist, UI>>

\* progress((i + 1) / total_frames, ...); time.sleep(0.01); next i
MlProgress(k) ==
    LET r == Progress(inv[k], Frac(inv[k].i + 1, inv[k].total_frames))
    IN /\ inv[k].pc = "ml_progress"
       /\ \E raises \in BOOLEAN :
            inv' = [inv EXCEPT ![k] =
                IF raises THEN TryExcept(r, "callback")
                ELSE [r EXCEPT !.pc = "ml_loop", !.i = r.i + 1]]
       /\ UNCHANGED <<calls, fs, demoListing, handles, Hist, UI>>

\* cap.release(); out.release(); return output_path
MlRelease(k) ==
    LET r == inv[k]
    IN /\ r.pc = "ml_release"
       /\ handles' = Release(r.call)
       /\ inv' = [inv EXCEPT ![k] =
            [r EXCEPT !.pc = "pv_complete", !.processed_path = r.output_path]]
       /\ UNCHANGED <<calls, fs, demoListing, Hist, UI>>

\* ------------------------------------------------------ demo_processing
DemoOutputPath(video_path) ==
    join(DEMO_DIR, <<"demo_processed_">> \o basename(video_path))

\* the grayscale frame, expanded back to three channels
Gray(frame) == [idx |-> frame, fx |-> "gray"]

\* A variant of the code that regenerates the fallback on every call.
NeedsFallbackAlways(demo_files) == TRUE

\* if not demo_files
NeedsFallback(demo_files) == demo_files = <<>>

\* A variant of the code that takes the last listed asset.
ChooseLast(demo_files) == demo_files[Len(demo_files)]

\* demo_file = demo_files[0]
Choose(demo_files) == demo_files[1]

\* demo_files = os.listdir(DEMO_DIR); if not demo_files: ...
DpList(k) ==
    LET r == inv[k]
    IN /\ r.pc = "dp_list"
       /\ inv' = [inv EXCEPT ![k] =
            [r EXCEPT !.listed = demoListing, !.demo_files = demoListing,
                      !.pc = IF NeedsFallback(demoListing) THEN "dp_open"
                             ELSE "dp_choose"]]
       /\ UNCHANGED <<calls, fs, demoListing, handles, Hist, UI>>

\* cap = cv2.VideoCapture(video_path); if not cap.isOpened(): raise
DpOpen(k) ==
    LET r == inv[k]
    IN /\ r.pc = "dp_open"
       /\ IF isOpened(r.saved_path)
          THEN /\ handles' = handles \cup {Cap(r.call, r.saved_path)}
               /\ inv' = [inv EXCEPT ![k] =
                    [r EXCEPT !.pc = "dp_writer", !.cap = r.saved_path, !.pos = 0]]
          ELSE /\ handles' = handles
               /\ inv' = [inv EXCEPT ![k] = TryExcept(r, "ValueError")]
       /\ UNCHANGED <<calls, fs, demoListing, Hist, UI>>

\* The listing of the demo area once file f has been created in it: a new
\* entry appears at a place the filesystem chooses.
Listings(f, ok) ==
    IF ~ok \/ (\E j \in 1..Len(demoListing) : demoListing[j] = f)
    THEN {demoListing}
    ELSE {SubSeq(demoListing, 1, j) \o <<f>> \o
          SubSeq(demoListing, j + 1, Len(demoListing)) : j \in 0..Len(demoListing)}

\* demo_output_path; out = cv2.VideoWriter(demo_output_path, ...)
DpWriter(k) ==
    LET r == inv[k]
        p == DemoOutputPath(r.saved_path)
    IN /\ r.pc = "dp_writer"
       /\ \E ok \in BOOLEAN :
            /\ fs' = Create(r.call, p, ok)
            /\ demoListing' \in Listings(basename(p), ok)
            /\ handles' = Acquire(r.call, p, ok)
            /\ shared' = Overlap(r.call, p, ok)
            /\ generated' = IF ok THEN generated + 1 ELSE generated
            /\ inv' = [inv EXCEPT ![k] =
                 [r EXCEPT !.pc = "dp_read", !.output_path = p,
                           !.out = [path |-> p, opened |-> ok]]]
       /\ UNCHANGED <<calls, firstDemo, UI>>

\* while True: ret, frame = cap.read(); if not ret: break
DpRead(k) ==
    LET r == inv[k]
    IN /\ r.pc = "dp_read"
       /\ inv' = [inv EXCEPT ![k] =
            IF ret(r)
            THEN [r EXCEPT !.pc = "dp_frame", !.frame = r.pos + 1, !.pos = r.pos + 1]
            ELSE [r EXCEPT !.pc = "dp_release"]]
       /\ UNCHANGED <<calls, fs, demoListing, handles, Hist, UI>>

\* the grayscale conversion and out.write(colored_gray)
DpFrame(k) ==
    LET r == inv[k]
    IN /\ r.pc = "dp_frame"
       /\ \E fault \in {"none", "filter", "write"} :
            IF fault = "none"
            THEN /\ fs' = Write(r.call, r.out, Gray(r.frame))
                 /\ inv' = [inv EXCEPT ![k] = [r EXCEPT !.pc = "dp_read"]]
            ELSE /\ fs' = fs
                 /\ inv' = [inv EXCEPT ![k] = TryExcept(r, fault)]
       /\ UNCHANGED <<calls, demoListing, handles, Hist, UI>>

\* cap.release(); out.release(); demo_files = [f"demo_processed_{video_name}"]
DpRelease(k) ==
    LET r == inv[k]
    IN /\ r.pc = "dp_release"
       /\ handles' = Release(r.call)
       /\ inv' = [inv EXCEPT ![k] =
            [r EXCEPT !.pc = "dp_choose",
                      !.demo_files = <<basename(DemoOutputPath(r.saved_path))>>]]
       /\ UNCHANGED <<calls, fs, demoListing, Hist, UI>>

\* demo_file = demo_files[0]; demo_output_path = join(DEMO_DIR, demo_file)
DpChoose(k) ==
    LET r == inv[k]
    IN /\ r.pc = "dp_choose"
       /\ inv' = [inv EXCEPT ![k] =
            [r EXCEPT !.pc = "dp_progress", !.step = 0,
                      !.output_path = join(DEMO_DIR, Choose(r.demo_files))]]
       /\ UNCHANGED <<calls, fs, demoListing, handles, Hist, UI>>

\* for i in range(num_steps): progress((i + 1) / num_steps, ...); sleep
DpProgress(k) ==
    LET r == Progress(inv[k], Frac(inv[k].step + 1, num_steps))
    IN /\ inv[k].pc = "dp_progress"
       /\ inv[k].step < num_steps
       /\ \E raises \in BOOLEAN :
            inv' = [inv EXCEPT ![k] =
                IF raises THEN TryExcept(r, "callback")
                ELSE [r EXCEPT !.step = r.step + 1]]
       /\ UNCHANGED <<calls, fs, demoListing, handles, Hist, UI>>

\* return demo_output_path
DpReturn(k) ==
    LET r == inv[k]
    IN /\ r.pc = "dp_progress"
       /\ r.step = num_steps
       /\ inv' = [inv EXCEPT ![k] =
            [r EXCEPT !.pc = "pv_complete", !.processed_path = r.output_path]]
       /\ firstDemo' = IF firstDemo = NoDemo /\ demoListing # <<>>
                       THEN [video |-> r.video, result |-> r.output_path]
                       ELSE firstDemo
       /\ UNCHANGED <<calls, fs, demoListing, handles, generated, shared, UI>>

\* ------------------------------------------------------ the Gradio session
set_demo_mode ==
    <<"demo", "Demo mode selected. Upload a video and it will be quickly processed with a pre-made effect.">>

set_test_mode ==
    <<"test", "Test mode selected. Upload a video for real processing.">>

on_process_start(video, current_mode) ==
    IF video = NoPath
    THEN <<NoPath, "Please upload a video first">>
    ELSE <<NoPath, IF current_mode = "demo"
                   THEN "Demo processing started... please wait"
                   ELSE "Test processing started... please wait">>

on_process_complete(output) ==
    IF output # NoPath
    THEN "Processing complete! The processed video is displayed above."
    ELSE "An error occurred during processing."

\* The user puts a video into the input component.
Upload ==
    /\ video_input = NoUpload
    /\ video_input' \in UIInputs
    /\ UNCHANGED <<inv, calls, fs, demoListing, handles, Hist, mode,
                   output_video, status, clicks>>

\* A click on a mode button starts both listeners registered on it.
Click(c) ==
    /\ clicks[c].btn = "none"
    /\ \A b \in 1..(c - 1) : clicks[b].btn # "none"
    /\ \E btn \in Modes :
         clicks' = [clicks EXCEPT ![c] =
            [btn |-> btn, setter |-> "pending", chain |-> "start", ran_with |-> "none"]]
    /\ UNCHANGED <<inv, calls, fs, demoListing, handles, Hist, mode,
                   video_input, output_video, status>>

\* demo_btn.click(fn=set_demo_mode, ...) / test_btn.click(fn=set_test_mode, ...)
SetMode(c) ==
    LET out == IF clicks[c].btn = "demo" THEN set_demo_mode ELSE set_test_mode
    IN /\ clicks[c].setter = "pending"
       /\ mode' = out[1]
       /\ status' = out[2]
       /\ clicks' = [clicks EXCEPT ![c].setter = "done"]
       /\ UNCHANGED <<inv, calls, fs, demoListing, handles, Hist,
                      video_input, output_video>>

\* <btn>.click(fn=on_process_start, inputs=[video_input, mode], ...)
OnProcessStart(c) ==
    LET out == on_process_start(video_input.video, mode)
    IN /\ clicks[c].chain = "start"
       /\ output_video' = out[1]
       /\ status' = out[2]
       /\ clicks' = [clicks EXCEPT ![c].chain = "process"]
       /\ UNCHANGED <<inv, calls, fs, demoListing, handles, Hist, mode, video_input>>

\* .then(fn=process_video, inputs=[video_input, mode], ...): the call starts
\* with the inputs as they are when it is dispatched.
ThenProcessVideo(c) ==
    /\ clicks[c].chain = "process"
    /\ Enter(c, video_input, mode)
    /\ clicks' = [clicks EXCEPT ![c].chain = "running", ![c].ran_with = mode]
    /\ UNCHANGED <<fs, demoListing, handles, Hist, mode, video_input,
                   output_video, status>>

\* outputs=[output_video]: the value process_video returned is displayed; an
\* exception leaves the component as it was.
ProcessVideoReturns(c) ==
    /\ clicks[c].chain = "running"
    /\ inv[c].pc = "done"
    /\ output_video' = IF inv[c].outcome.kind = "return"
                       THEN inv[c].outcome.value ELSE output_video
    /\ clicks' = [clicks EXCEPT ![c].chain = "complete"]
    /\ UNCHANGED <<inv, calls, fs, demoListing, handles, Hist, mode,
                   video_input, status>>

\* .then(fn=on_process_complete, inputs=[output_video], outputs=[status])
OnProcessComplete(c) ==
    /\ clicks[c].chain = "complete"
    /\ status' = on_process_complete(output_video)
    /\ clicks' = [clicks EXCEPT ![c].chain = "finished"]
    /\ UNCHANGED <<inv, calls, fs, demoListing, handles, Hist, mode,
                   video_input, output_video>>

\* ------------------------------------------------------- specifications
\* One worker: process_video is called, runs to its end, and is called again.
Call ==
    /\ \E input \in AllInputs, md \in Modes : Enter(1, input, md)
    /\ UNCHANGED <<fs, demoListing, handles, Hist, UI>>

Next ==
    \/ Call
    \/ PvCopy(1) \/ PvProgress(1) \/ PvComplete(1)
    \/ MlOpen(1) \/ MlWriter(1) \/ MlStart(1) \/ MlLoop(1) \/ MlFrame(1)
    \/ MlProgress(1) \/ MlRelease(1)
    \/ DpList(1) \/ DpOpen(1) \/ DpWriter(1) \/ DpRead(1) \/ DpFrame(1)
    \/ DpRelease(1) \/ DpChoose(1) \/ DpProgress(1) \/ DpReturn(1)

Spec == Init /\ [][Next]_vars

\* Concurrent test-mode calls: call number k runs on worker k.
ConcCall ==
    /\ calls < MaxCalls
    /\ \E input \in ConcInputs : Enter(calls + 1, input, "test")
    /\ UNCHANGED <<fs, demoListing, handles, Hist, UI>>

NextConc ==
    \/ ConcCall
    \/ \E k \in Workers :
         \/ PvCopy(k) \/ PvProgress(k) \/ PvComplete(k)
         \/ MlOpen(k) \/ MlWriter(k) \/ MlStart(k) \/ MlLoop(k) \/ MlFrame(k)
         \/ MlProgress(k) \/ MlRelease(k)

\* A fresh installation: the three areas were just created, empty.
InitFresh == Init /\ demoListing = <<>>

SpecConc == InitFresh /\ [][NextConc]_vars

\* The Gradio session: click c runs process_video on worker c.
NextUI ==
    \/ Upload
    \/ \E c \in Workers :
         \/ Click(c) \/ SetMode(c) \/ OnProcessStart(c) \/ ThenProcessVideo(c)
         \/ ProcessVideoReturns(c) \/ OnProcessComplete(c)
         \/ PvCopy(c) \/ PvProgress(c) \/ PvComplete(c)
         \/ MlOpen(c) \/ MlWriter(c) \/ MlStart(c) \/ MlLoop(c) \/ MlFrame(c)
         \/ MlProgress(c) \/ MlRelease(c)
         \/ DpList(c) \/ DpOpen(c) \/ DpWriter(c) \/ DpRead(c) \/ DpFrame(c)
         \/ DpRelease(c) \/ DpChoose(c) \/ DpProgress(c) \/ DpReturn(c)

SpecUI == InitFresh /\ [][NextUI]_vars

\* ------------------------------------------------------------ the claims
\* comparison of exact fractions with positive denominators
Leq(f, g) == f[1] * g[2] <= g[1] * f[2]
IsOne(f) == f[1] = f[2]
Last(q) == q[Len(q)]
Monotone(q) == \A j \in 1..(Len(q) - 1) : Leq(q[j], q[j + 1])
Owned(k) == {h \in handles : h.owner = inv[k].call}

\* demo_processing was called by the current call of worker k and has ended
DemoEnded(r) ==
    /\ r.mode = "demo"
    /\ \/ r.pc = "pv_complete"
       \/ r.pc = "done" /\ r.outcome.kind = "return" /\ r.saved_path # NoPath

\* C1: process_video never raises: every call ends by returning a path or
\* None, and a call whose source file does not exist returns None.
C1_NeverRaises ==
    \A k \in Workers :
        inv[k].pc = "done" =>
            /\ inv[k].outcome.kind = "return"
            /\ (inv[k].upload = Absent => inv[k].outcome.value = NoPath)

\* C2: the fractions handed to the progress callback in one call never
\* decrease, and a call that returns a result has reported 1.0 last.
C2_ProgressMonotone ==
    \A k \in Workers :
        /\ Monotone(inv[k].progress)
        /\ (inv[k].pc = "done" /\ inv[k].outcome.value # NoPath
              => IsOne(Last(inv[k].progress)))

\* C3: when apply_ml_processing returns, the output holds every readable
\* frame of the source, each once and in read order, whatever the header
\* declares.
C3_AllFramesWritten ==
    \A k \in Workers :
        LET r == inv[k]
        IN (r.mode = "test" /\ r.processed_path # NoPath /\ r.out.opened) =>
              fs[r.output_path].frames =
                  [j \in 1..fs[r.saved_path].n |->
                      [by |-> r.call, idx |-> j, fx |-> "edges"]]

\* C4: when a call of process_video has ended normally, after an early
\* stop, or by an exception raised in the frame loop (a frame had been
\* read), no handle it opened is open.
C4_HandlesReleased ==
    \A k \in Workers :
        (inv[k].pc = "done" /\ (inv[k].outcome.error = "none" \/ inv[k].frame > 0))
            => Owned(k) = {}

\* C5 as claimed: at most one fallback is ever generated, the first call
\* generates exactly one, and a call that finds the demo area non-empty
\* opens nothing and adds nothing.
C5_FirstCallGenerates ==
    /\ generated <= 1
    /\ \A k \in Workers :
         LET r == inv[k]
         IN /\ (calls = 1 /\ DemoEnded(r) /\ r.listed = <<>>) => generated = 1
            /\ (r.mode = "demo" /\ r.listed # <<>>) =>
                  (r.cap = NoPath /\ r.out = NoOut /\ Owned(k) = {}
                   /\ demoListing = r.listed)

\* C5 as amended: at most one fallback is ever generated; a call that finds
\* the demo area empty generates exactly one when its source opens and the
\* destination can be created, and none otherwise; a call that finds the
\* demo area non-empty opens no source and no writer and adds no file.
C5_AtMostOneFallback ==
    /\ generated <= 1
    /\ \A k \in Workers :
         LET r == inv[k]
         IN /\ (DemoEnded(r) /\ r.listed = <<>>) =>
                  /\ generated = (IF r.cap # NoPath /\ r.out.opened THEN 1 ELSE 0)
                  /\ Len(demoListing) = generated
            /\ (r.mode = "demo" /\ r.listed # <<>>) =>
                  (r.cap = NoPath /\ r.out = NoOut /\ Owned(k) = {}
                   /\ demoListing = r.listed)

\* a second call answers from the fallback the first call generated
C5_Witness ==
    \E k \in Workers :
        /\ calls = 2 /\ generated = 1
        /\ inv[k].pc = "done" /\ inv[k].mode = "demo"
        /\ inv[k].listed = <<basename(DemoOutputPath(TmpPath("a.mp4")))>>
        /\ inv[k].outcome.value = DemoOutputPath(TmpPath("a.mp4"))

\* C6: a call whose destination container could not be created fails: it
\* returns None and reports no 100% progress.
C6_WriteFaultFails ==
    \A k \in Workers :
        LET r == inv[k]
        IN (r.mode = "test" /\ r.pc = "done" /\ r.output_path # NoPath
                /\ ~r.out.opened) =>
              /\ r.outcome.value = NoPath
              /\ \A j \in 1..Len(r.progress) : ~IsOne(r.progress[j])

\* C7: concurrent test-mode calls whose uploads share a base name resolve
\* the same uploaded path and the same output path, and nothing keeps one
\* from creating the destination while the other holds a writer on it.
C7_NoCoordination ==
    \A j, k \in Workers :
        (/\ j # k
         /\ inv[j].mode = "test" /\ inv[k].mode = "test"
         /\ inv[j].saved_path # NoPath /\ inv[k].saved_path # NoPath
         /\ basename(inv[j].video) = basename(inv[k].video)) =>
            /\ inv[j].saved_path = inv[k].saved_path
            /\ (inv[j].output_path # NoPath /\ inv[k].output_path # NoPath
                  => inv[j].output_path = inv[k].output_path)
            /\ (inv[k].pc = "ml_writer" => ENABLED MlWriter(k))

\* two writers were open on one destination, and the file returned to one
\* call is the container the other call created over it
C7_Witness ==
    \E k \in Workers :
        /\ inv[k].pc = "done"
        /\ inv[k].outcome.value \in shared
        /\ fs[inv[k].outcome.value].creator # inv[k].call

\* the state part of C8: after an early stop the call keeps and returns the
\* partial output
C8_StopInv ==
    \A k \in Workers :
        LET r == inv[k]
        IN (r.mode = "test" /\ r.i < r.total_frames /\ r.processed_path # NoPath) =>
              /\ r.processed_path = OutputPath(r.saved_path)
              /\ (r.out.opened =>
                    Exists(r.processed_path) /\ Len(fs[r.processed_path].frames) = r.i)
              /\ (r.pc = "done" =>
                    /\ IsOne(Last(r.progress))
                    /\ (r.outcome.error = "none" =>
                          r.outcome = Returned(r.processed_path)))

\* the step part of C8: the step taken on a failed read goes to the release
\* of the handles; it raises nothing and touches no file
C8_StopStep ==
    \A k \in Workers :
        (inv[k].pc = "ml_loop" /\ LoopContinues(inv[k]) /\ ~ret(inv[k])
            /\ inv'[k] # inv[k]) =>
           (inv'[k].pc = "ml_release" /\ Owned(k)' = Owned(k) /\ fs' = fs)

\* C8: a read that fails before the declared count ends the loop without
\* raising; the partial output is kept and returned, and process_video
\* reports 100% and, unless the progress callback raises there, returns
\* that path.
C8_EarlyStop == [](C8_StopInv) /\ [][C8_StopStep]_vars

\* a call that stopped early after one frame has returned its partial output
C8_Witness ==
    \E k \in Workers :
        LET r == inv[k]
        IN /\ r.pc = "done" /\ r.mode = "test"
           /\ r.i = 1 /\ r.total_frames = 2 /\ r.out.opened
           /\ r.outcome = Returned(OutputPath(r.saved_path))
           /\ Len(fs[r.outcome.value].frames) = 1

\* C9: demo_processing returns the first listed asset when the demo area is
\* non-empty at the call, otherwise demo_processed_<source name>; once the
\* area is non-empty every call returns the same path, whatever its source.
C9_FirstAsset ==
    \A k \in Workers :
        LET r == inv[k]
        IN (r.mode = "demo" /\ r.processed_path # NoPath) =>
              /\ r.processed_path =
                    (IF r.listed # <<>> THEN join(DEMO_DIR, Head(r.listed))
                     ELSE DemoOutputPath(r.video))
              /\ (r.listed # <<>> =>
                    firstDemo # NoDemo /\ r.processed_path = firstDemo.result)

\* a call whose source cannot be opened returns the path an earlier call,
\* with another source, returned
C9_Witness ==
    \E k \in Workers :
        LET r == inv[k]
        IN /\ r.pc = "done" /\ r.mode = "demo" /\ r.upload = Corrupt
           /\ Len(r.listed) = 2
           /\ firstDemo # NoDemo /\ firstDemo.video # r.video
           /\ r.outcome.value = firstDemo.result

\* C10: the call of process_video a click triggers runs with the mode of
\* the button that was clicked.
C10_ClickedMode ==
    \A c \in Workers :
        clicks[c].ran_with # "none" => clicks[c].ran_with = clicks[c].btn

====
